---- MODULE Spec2Model ----
(***************************************************************************)
(* Model of raulk/trampoline: a harness that drives Go heap pressure under *)
(* a cgroup memory ceiling.  The program keeps a process-wide list of byte *)
(* slabs (data) and runs either a self-directed sequence (spike, release,  *)
(* optional GC, reallocate) or an HTTP surface with /add, /rel, /gc,       *)
(* /stats and /reset.                                                      *)
(***************************************************************************)
EXTENDS Integers, Sequences, FiniteSets, TLC

VARIABLES
    pc,          \* position of main()
    interactive, \* -interactive flag
    limit,       \* -limit flag
    gcOpt,       \* -gc flag
    cgroup,      \* the /trampoline cgroup as main() sees it
    heapAlloc,   \* stats.HeapAlloc of main()'s MemStats, as last read
    reserved,    \* main()'s reserved
    available,   \* main()'s available
    fill,        \* main()'s fill
    data,        \* var data [][]byte
    events,      \* steps taken by main(), or by the handler that ran last
    resp,        \* what the handler that ran last was asked and answered
    added,       \* bytes added by completed adds since the last reset
    released,    \* bytes reported released since the last reset
    conns,       \* goroutines of net/http serving requests concurrently
    started      \* number of concurrent requests accepted so far

vars == << pc, interactive, limit, gcOpt, cgroup, heapAlloc, reserved,
           available, fill, data, events, resp, added, released, conns,
           started >>

----------------------------------------------------------------------------
(* Bounds of the model.                                                    *)

\* uint64 arithmetic is modelled at this width (2^UintBits wraps to 0).
UintBits == 26

\* the store never holds more entries than this between two resets.
MaxSlabs == 3

\* number of requests the concurrent surface accepts.
MaxRequests == 3

\* number of connections served at once.
NumConns == 2

\* largest slab of the arbitrary stores the store-level checks start from.
MaxInitLen == 3

Modulus == 2 ^ UintBits

\* the largest value of Go's int at the modelled width.
MaxInt == (2 ^ (UintBits - 1)) - 1

\* values of -limit the model runs with.
Limits == {0, 10, 25}

\* values runtime.ReadMemStats may report as HeapAlloc.
HeapReadings == {0, 3, 24, 30}

Digits == {"0", "1", "2", "3", "4", "5", "6", "7", "8", "9"}

\* values of the "bytes" query parameter: absent, or one string.
Queries ==
    { <<>>,
      << <<>> >>,
      << <<"x">> >>,
      << <<"-">> >>,
      << <<"1", "x">> >>,
      << <<"0">> >>,
      << <<"1">> >>,
      << <<"2">> >>,
      << <<"0", "3">> >>,
      << <<"+", "2">> >>,
      << <<"-", "1">> >> }

----------------------------------------------------------------------------
(* Byte slices.                                                            *)

RECURSIVE SumLen(_)
SumLen(d) == IF d = <<>> THEN 0 ELSE Len(Head(d)) + SumLen(Tail(d))

\* total retained bytes: the sum of the lengths of the slabs.
totalBytes(d) == SumLen(d)

\* make([]byte, n): n zero bytes.
make(n) == [j \in 1..n |-> 0]

\* for j := range m { m[j] = v }
fillWith(m, v) == [j \in 1..Len(m) |-> v]

\* copy that moves no byte.
copy_nothing(dst, src) == dst

\* copy(dst, src): the first min(len(dst), len(src)) bytes of src.
copy(dst, src) ==
    [j \in 1..Len(dst) |-> IF j <= Len(src) THEN src[j] ELSE dst[j]]

\* uint64 subtraction.
USub(a, b) == (a - b) % Modulus

----------------------------------------------------------------------------
(* Request parsing.                                                        *)

RECURSIVE DecVal(_)
DecVal(s) ==
    IF s = <<>> THEN 0
    ELSE 10 * DecVal(SubSeq(s, 1, Len(s) - 1))
         + (CHOOSE v \in 0..9 :
              s[Len(s)] = <<"0", "1", "2", "3", "4", "5", "6", "7", "8", "9">>[v + 1])

\* strconv.Atoi: an optional sign, then one or more decimal digits.
Atoi(s) ==
    LET signed == s # <<>> /\ s[1] \in {"+", "-"}
        body   == IF signed THEN Tail(s) ELSE s
    IN IF body = <<>> \/ (\E k \in 1..Len(body) : body[k] \notin Digits)
       THEN [err |-> TRUE, n |-> 0]
       ELSE [err |-> FALSE,
             n |-> IF signed /\ s[1] = "-" THEN 0 - DecVal(body) ELSE DecVal(body)]

\* parseBytes that lets an unparsable amount through as 0.
parseBytes_lenient(q) ==
    IF Len(q) = 0 THEN [err |-> FALSE, n |-> 0]
    ELSE [err |-> FALSE, n |-> Atoi(q[1]).n]

\* parseBytes(r): q is r.URL.Query()["bytes"].
parseBytes(q) ==
    IF Len(q) = 0 THEN [err |-> TRUE, n |-> -1]
    ELSE LET a == Atoi(q[1])
         IN IF a.err THEN [err |-> TRUE, n |-> -1] ELSE [err |-> FALSE, n |-> a.n]

----------------------------------------------------------------------------
(* The slab store.                                                         *)

\* add that allocates one byte too many.
add_offByOne(d, bytes) == Append(d, fillWith(make(bytes + 1), 1))

\* add(bytes), for bytes >= 0: a new slab of bytes bytes, each set to 1.
add(d, bytes) == Append(d, fillWith(make(bytes), 1))

\* the release loop that forgets to count a slab it drops.
RECURSIVE releaseLoop_noDecrement(_, _, _)
releaseLoop_noDecrement(d, i, rem) ==
    IF i <= Len(d) /\ rem > 0
    THEN LET head == d[i]
             l    == Len(head)
         IN IF rem >= l
            THEN releaseLoop_noDecrement([d EXCEPT ![i] = <<>>], i + 1, rem)
            ELSE releaseLoop_noDecrement(
                     [d EXCEPT ![i] = copy(make(l - rem), head)], i + 1, 0)
    ELSE [data |-> d, rem |-> rem]

\* the release loop that goes on after the slab it shrinks.
RECURSIVE releaseLoop_keepsGoing(_, _, _)
releaseLoop_keepsGoing(d, i, rem) ==
    IF i <= Len(d) /\ rem > 0
    THEN LET head == d[i]
             l    == Len(head)
         IN IF rem >= l
            THEN releaseLoop_keepsGoing([d EXCEPT ![i] = <<>>], i + 1, rem - l)
            ELSE releaseLoop_keepsGoing(
                     [d EXCEPT ![i] = copy(make(l - rem), head)], i + 1, rem)
    ELSE [data |-> d, rem |-> rem]

\* the release loop whose replacement slab is one byte too long.
RECURSIVE releaseLoop_offByOne(_, _, _)
releaseLoop_offByOne(d, i, rem) ==
    IF i <= Len(d) /\ rem > 0
    THEN LET head == d[i]
             l    == Len(head)
         IN IF rem >= l
            THEN releaseLoop_offByOne([d EXCEPT ![i] = <<>>], i + 1, rem - l)
            ELSE releaseLoop_offByOne(
                     [d EXCEPT ![i] = copy(make(l - rem + 1), head)], i + 1, 0)
    ELSE [data |-> d, rem |-> rem]

\* the release loop that keeps rem bytes of the slab instead of dropping them.
RECURSIVE releaseLoop_keepsRem(_, _, _)
releaseLoop_keepsRem(d, i, rem) ==
    IF i <= Len(d) /\ rem > 0
    THEN LET head == d[i]
             l    == Len(head)
         IN IF rem >= l
            THEN releaseLoop_keepsRem([d EXCEPT ![i] = <<>>], i + 1, rem - l)
            ELSE releaseLoop_keepsRem(
                     [d EXCEPT ![i] = copy(make(rem), head)], i + 1, 0)
    ELSE [data |-> d, rem |-> rem]

\* the loop of release: d is data, i the (1-based) index, rem what is left.
RECURSIVE releaseLoop(_, _, _)
releaseLoop(d, i, rem) ==
    IF i <= Len(d) /\ rem > 0
    THEN LET head == d[i]
             l    == Len(head)
         IN IF rem >= l
            THEN releaseLoop([d EXCEPT ![i] = <<>>], i + 1, rem - l)
            ELSE releaseLoop(
                     [d EXCEPT ![i] = copy(make(l - rem), head)], i + 1, 0)
    ELSE [data |-> d, rem |-> rem]

\* release that reports the requested amount as released.
release_reportsRequested(d, bytes) ==
    LET r == releaseLoop(d, 1, bytes)
    IN [data |-> r.data, released |-> bytes, notReleased |-> r.rem]

\* release(bytes): the store afterwards and the two returned values.
release(d, bytes) ==
    LET r == releaseLoop(d, 1, bytes)
    IN [data |-> r.data, released |-> bytes - r.rem, notReleased |-> r.rem]

----------------------------------------------------------------------------
(* main(): cgroup setup and mode selection.                                *)

NoResp ==
    [op |-> "none", query |-> <<>>, status |-> 0, bytes |-> 0,
     released |-> 0, notReleased |-> 0, prior |-> <<>>]

Idle == [pc |-> "idle", op |-> "none", bytes |-> 0, i |-> 0, rem |-> 0,
         head |-> <<>>, seen |-> <<>>]

Init ==
    /\ pc = "load"
    /\ interactive \in BOOLEAN
    /\ limit \in Limits
    /\ gcOpt \in BOOLEAN
    /\ cgroup \in {[state |-> "absent", limit |-> 0, swap |-> 0],
                   [state |-> "stale", limit |-> 0, swap |-> 0]}
    /\ heapAlloc = 0
    /\ reserved = 0
    /\ available = 0
    /\ fill = 0
    /\ data = <<>>
    /\ events = <<>>
    /\ resp = NoResp
    /\ added = 0
    /\ released = 0
    /\ conns = [c \in 1..NumConns |-> Idle]
    /\ started = 0

\* what main() leaves alone while it sets up.
SetupFrame ==
    UNCHANGED << interactive, limit, gcOpt, heapAlloc, reserved, available,
                 fill, data, events, resp, added, released, conns, started >>

\* cgroups.Load: a cgroup left over from an earlier run is deleted.
LoadCgroup ==
    /\ pc = "load"
    /\ cgroup' = IF cgroup.state = "stale"
                 THEN [cgroup EXCEPT !.state = "absent"]
                 ELSE cgroup
    /\ pc' = "new"
    /\ SetupFrame

\* cgroups.New with Memory.Limit and Memory.Swap set to limit; panics on error.
NewCgroup ==
    /\ pc = "new"
    /\ \/ /\ cgroup' = [state |-> "created", limit |-> limit, swap |-> limit]
          /\ pc' = "bind"
       \/ /\ cgroup' = cgroup
          /\ pc' = "panicked"
    /\ SetupFrame

\* cgroup.Add whose error is ignored: main() carries on unbound.
BindProcess_ignoresError ==
    /\ pc = "bind"
    /\ \/ /\ cgroup' = [cgroup EXCEPT !.state = "bound"]
          /\ pc' = "mode"
       \/ /\ cgroup' = cgroup
          /\ pc' = "mode"
    /\ SetupFrame

\* cgroup.Add of this process; panics on error, and the deferred Delete runs.
BindProcess ==
    /\ pc = "bind"
    /\ \/ /\ cgroup' = [cgroup EXCEPT !.state = "bound"]
          /\ pc' = "mode"
       \/ /\ cgroup' = [cgroup EXCEPT !.state = "deleted"]
          /\ pc' = "panicked"
    /\ SetupFrame

\* if *interactive { interactiveMode(); return }
SelectMode ==
    /\ pc = "mode"
    /\ pc' = IF interactive THEN "serving" ELSE "initial"
    /\ UNCHANGED cgroup
    /\ SetupFrame

----------------------------------------------------------------------------
(* main(): the self-directed sequence.                                     *)

\* what the self-directed sequence never touches.
ScriptFrame ==
    UNCHANGED << interactive, limit, gcOpt, resp, added, released, conns,
                 started >>

\* writeMemStats(&stats, log.Writer()): stats is read afresh and printed.
writeMemStats(ev) ==
    /\ heapAlloc' \in HeapReadings
    /\ events' = Append(ev, "snapshot")

\* the first writeMemStats of main().
InitialSnapshot ==
    /\ pc = "initial"
    /\ writeMemStats(events)
    /\ pc' = "plan"
    /\ UNCHANGED << cgroup, reserved, available, fill, data >>
    /\ ScriptFrame

\* reserved rounded up instead of down.
planReserved_roundsUp(l) == (l + 9) \div 10

\* uint64(float64(*limit) * 0.10): the product with its fraction dropped
\* (the float64 product has the integer part of l/10 for every l < 2^49).
planReserved(l) == l \div 10

\* uint64(*limit) - stats.HeapAlloc
planAvailable(l, a) == USub(l, a)

\* fill that forgets to set the reserve aside.
planFill_noReserve(av, res) == av

\* available - reserved
planFill(av, res) == USub(av, res)

\* var ( reserved, available, fill )
Plan ==
    /\ pc = "plan"
    /\ reserved' = planReserved(limit)
    /\ available' = planAvailable(limit, heapAlloc)
    /\ fill' = planFill(available', reserved')
    /\ pc' = "spike"
    /\ UNCHANGED << cgroup, heapAlloc, data, events >>
    /\ ScriptFrame

\* data = append(data, <slab of fill bytes of 0xff>); make panics when the
\* length does not fit an int, and the deferred cgroup.Delete runs.
Spike ==
    /\ pc = "spike"
    /\ IF fill > MaxInt
       THEN /\ pc' = "panicked"
            /\ events' = Append(events, "panic")
            /\ cgroup' = [cgroup EXCEPT !.state = "deleted"]
            /\ data' = data
       ELSE /\ pc' = "spiked"
            /\ events' = Append(events, "add")
            /\ cgroup' = cgroup
            /\ data' = Append(data, fillWith(make(fill), 255))
    /\ UNCHANGED << heapAlloc, reserved, available, fill >>
    /\ ScriptFrame

\* writeMemStats after the slab is allocated.
SpikeSnapshot ==
    /\ pc = "spiked"
    /\ writeMemStats(events)
    /\ pc' = "release"
    /\ UNCHANGED << cgroup, reserved, available, fill, data >>
    /\ ScriptFrame

\* the step after the release that never runs the collector.
afterRelease_neverGC(g) == "realloc"

\* if *gc { ... }
afterRelease(g) == IF g THEN "gc" ELSE "realloc"

\* data = nil
ReleaseSlab ==
    /\ pc = "release"
    /\ data' = <<>>
    /\ events' = Append(events, "release")
    /\ pc' = afterRelease(gcOpt)
    /\ UNCHANGED << cgroup, heapAlloc, reserved, available, fill >>
    /\ ScriptFrame

\* runtime.GC(); writeMemStats(&stats, log.Writer())
RunGC ==
    /\ pc = "gc"
    /\ writeMemStats(Append(events, "gc"))
    /\ pc' = "realloc"
    /\ UNCHANGED << cgroup, reserved, available, fill, data >>
    /\ ScriptFrame

\* data = append(data, <slab of reserved bytes of 0xff>)
Reallocate ==
    /\ pc = "realloc"
    /\ data' = Append(data, fillWith(make(reserved), 255))
    /\ events' = Append(events, "add")
    /\ pc' = "exit"
    /\ UNCHANGED << cgroup, heapAlloc, reserved, available, fill >>
    /\ ScriptFrame

\* main() returns: the deferred cgroup.Delete runs.
Exit ==
    /\ pc = "exit"
    /\ cgroup' = [cgroup EXCEPT !.state = "deleted"]
    /\ events' = Append(events, "exit")
    /\ pc' = "done"
    /\ UNCHANGED << heapAlloc, reserved, available, fill, data >>
    /\ ScriptFrame

----------------------------------------------------------------------------
(* interactiveMode(): the handlers, each run from start to end.            *)

\* what a handler never touches.
ServeFrame ==
    UNCHANGED << pc, interactive, limit, gcOpt, cgroup, heapAlloc, reserved,
                 available, fill, conns, started >>

\* the /add handler.  A negative amount makes make() panic; net/http
\* recovers the panic and drops the connection without a response body.
handleAdd(q) ==
    LET p == parseBytes(q)
    IN /\ pc = "serving"
       /\ IF p.err
          THEN /\ resp' = [NoResp EXCEPT !.op = "add", !.query = q,
                                         !.status = 400, !.prior = data]
               /\ events' = <<"parse", "error">>
               /\ UNCHANGED << data, added >>
          ELSE IF p.n < 0
          THEN /\ resp' = [NoResp EXCEPT !.op = "add", !.query = q,
                                         !.status = 0 - 1, !.bytes = p.n,
                                         !.prior = data]
               /\ events' = <<"parse", "panic">>
               /\ UNCHANGED << data, added >>
          ELSE /\ Len(data) < MaxSlabs
               /\ data' = add(data, p.n)
               /\ added' = added + p.n
               /\ resp' = [NoResp EXCEPT !.op = "add", !.query = q,
                                         !.status = 200, !.bytes = p.n,
                                         !.prior = data]
               /\ events' = <<"parse", "add", "snapshot">>
       /\ UNCHANGED released
       /\ ServeFrame

\* the /rel handler.
handleRel(q) ==
    LET p == parseBytes(q)
        r == release(data, p.n)
    IN /\ pc = "serving"
       /\ IF p.err
          THEN /\ resp' = [NoResp EXCEPT !.op = "rel", !.query = q,
                                         !.status = 400, !.prior = data]
               /\ events' = <<"parse", "error">>
               /\ UNCHANGED << data, released >>
          ELSE /\ data' = r.data
               /\ released' = released + r.released
               /\ resp' = [NoResp EXCEPT !.op = "rel", !.query = q,
                                         !.status = 200, !.bytes = p.n,
                                         !.released = r.released,
                                         !.notReleased = r.notReleased,
                                         !.prior = data]
               /\ events' = <<"parse", "release", "snapshot">>
       /\ UNCHANGED added
       /\ ServeFrame

\* func gc: runtime.GC(), then writeMemStats.
gc ==
    /\ pc = "serving"
    /\ resp' = [NoResp EXCEPT !.op = "gc", !.status = 200, !.prior = data]
    /\ events' = <<"gc", "snapshot">>
    /\ UNCHANGED << data, added, released >>
    /\ ServeFrame

\* stats that drops the store while it reports.
stats_clears ==
    /\ pc = "serving"
    /\ resp' = [NoResp EXCEPT !.op = "stats", !.status = 200, !.prior = data]
    /\ events' = <<"snapshot">>
    /\ data' = <<>>
    /\ UNCHANGED << added, released >>
    /\ ServeFrame

\* func stats: writeMemStats only.
stats ==
    /\ pc = "serving"
    /\ resp' = [NoResp EXCEPT !.op = "stats", !.status = 200, !.prior = data]
    /\ events' = <<"snapshot">>
    /\ UNCHANGED << data, added, released >>
    /\ ServeFrame

\* reset that keeps the slab added last.
reset_keepsLast ==
    /\ pc = "serving"
    /\ data' = IF data = <<>> THEN data ELSE << data[Len(data)] >>
    /\ added' = 0
    /\ released' = 0
    /\ resp' = [NoResp EXCEPT !.op = "reset", !.status = 200, !.prior = data]
    /\ events' = <<"reset", "gc", "snapshot">>
    /\ ServeFrame

\* reset that reads its snapshot before the collection pass.
reset_snapshotFirst ==
    /\ pc = "serving"
    /\ data' = <<>>
    /\ added' = 0
    /\ released' = 0
    /\ resp' = [NoResp EXCEPT !.op = "reset", !.status = 200, !.prior = data]
    /\ events' = <<"reset", "snapshot", "gc">>
    /\ ServeFrame

\* func reset: data = nil, runtime.GC(), then writeMemStats.
reset ==
    /\ pc = "serving"
    /\ data' = <<>>
    /\ added' = 0
    /\ released' = 0
    /\ resp' = [NoResp EXCEPT !.op = "reset", !.status = 200, !.prior = data]
    /\ events' = <<"reset", "gc", "snapshot">>
    /\ ServeFrame

\* http.ListenAndServe: one request at a time.
Serve ==
    \/ \E q \in Queries : handleAdd(q)
    \/ \E q \in Queries : handleRel(q)
    \/ gc
    \/ stats
    \/ reset

\* interactiveMode() returning into the self-directed sequence (no return).
ServeReturns_fallsThrough ==
    /\ pc = "serving"
    /\ pc' = "initial"
    /\ UNCHANGED cgroup
    /\ SetupFrame

\* http.ListenAndServe returns (it only does on error), interactiveMode()
\* returns, and main() returns after it: the deferred cgroup.Delete runs.
ServeReturns ==
    /\ pc = "serving"
    /\ pc' = "stopped"
    /\ cgroup' = [cgroup EXCEPT !.state = "deleted"]
    /\ SetupFrame

Next ==
    \/ LoadCgroup
    \/ NewCgroup
    \/ BindProcess
    \/ SelectMode
    \/ InitialSnapshot
    \/ Plan
    \/ Spike
    \/ SpikeSnapshot
    \/ ReleaseSlab
    \/ RunGC
    \/ Reallocate
    \/ Exit
    \/ Serve
    \/ ServeReturns

Spec == Init /\ [][Next]_vars

----------------------------------------------------------------------------
(* The store driven from an arbitrary content: release and add are plain   *)
(* functions of data, so they are also exercised on slabs whose bytes      *)
(* differ from one another.                                                *)

ByteValues == {1, 2}

\* byte slices of length at most n.
SlabsUpTo(n) == UNION { [1..k -> ByteValues] : k \in 0..n }

Stores ==
    { <<>> } \cup { <<a>> : a \in SlabsUpTo(MaxInitLen) }
             \cup { <<a, b>> : a \in SlabsUpTo(MaxInitLen), b \in SlabsUpTo(1) }

InitStore ==
    /\ pc = "serving"
    /\ interactive = TRUE
    /\ limit = 25
    /\ gcOpt = FALSE
    /\ cgroup = [state |-> "bound", limit |-> 25, swap |-> 25]
    /\ heapAlloc = 0
    /\ reserved = 0
    /\ available = 0
    /\ fill = 0
    /\ data \in Stores
    /\ events = <<>>
    /\ resp = NoResp
    /\ added = totalBytes(data)
    /\ released = 0
    /\ conns = [c \in 1..NumConns |-> Idle]
    /\ started = 0

SpecStore == InitStore /\ [][Serve]_vars

----------------------------------------------------------------------------
(* interactiveMode() as net/http runs it: every connection is served by    *)
(* its own goroutine, and the handlers take no lock, so the reads and      *)
(* writes of data by add, release and reset interleave.  A step below is   *)
(* one read or one write of data.                                          *)

InitConc ==
    /\ pc = "serving"
    /\ interactive = TRUE
    /\ limit = 25
    /\ gcOpt = FALSE
    /\ cgroup = [state |-> "bound", limit |-> 25, swap |-> 25]
    /\ heapAlloc = 0
    /\ reserved = 0
    /\ available = 0
    /\ fill = 0
    /\ data = <<>>
    /\ events = <<>>
    /\ resp = NoResp
    /\ added = 0
    /\ released = 0
    /\ conns = [c \in 1..NumConns |-> Idle]
    /\ started = 0

ConcFrame ==
    UNCHANGED << pc, interactive, limit, gcOpt, cgroup, heapAlloc, reserved,
                 available, fill, events, resp >>

\* a request arrives on an idle connection and its amount is parsed; a
\* rejected request (or an add whose make() panics) ends at once.
Accept(c, op, q) ==
    LET p   == parseBytes(q)
        bad == op # "reset" /\ (p.err \/ (op = "add" /\ p.n < 0))
    IN /\ pc = "serving"
       /\ conns[c].pc = "idle"
       /\ started < MaxRequests
       /\ started' = started + 1
       /\ conns' = [conns EXCEPT ![c] =
                      IF bad THEN Idle
                      ELSE [Idle EXCEPT
                              !.op = op,
                              !.bytes = IF op = "reset" THEN 0 ELSE p.n,
                              !.rem = IF op = "rel" THEN p.n ELSE 0,
                              !.pc = CASE op = "add" -> "add_read"
                                       [] op = "rel" -> "rel_check"
                                       [] OTHER -> "reset_write"]]
       /\ UNCHANGED << data, added, released >>
       /\ ConcFrame

\* add: append reads the slice data ...
AddRead(c) ==
    /\ conns[c].pc = "add_read"
    /\ conns' = [conns EXCEPT ![c].seen = data, ![c].pc = "add_write"]
    /\ UNCHANGED << data, added, released, started >>
    /\ ConcFrame

\* ... and data is assigned the slice it read, one slab longer.
AddWrite(c) ==
    /\ conns[c].pc = "add_write"
    /\ data' = add(conns[c].seen, conns[c].bytes)
    /\ added' = added + conns[c].bytes
    /\ conns' = [conns EXCEPT ![c] = Idle]
    /\ UNCHANGED << released, started >>
    /\ ConcFrame

\* release: i < len(data) && rem > 0; when false the handler reports
\* bytes - rem and rem.
RelCheck(c) ==
    /\ conns[c].pc = "rel_check"
    /\ IF conns[c].i < Len(data) /\ conns[c].rem > 0
       THEN /\ conns' = [conns EXCEPT ![c].pc = "rel_load"]
            /\ UNCHANGED released
       ELSE /\ conns' = [conns EXCEPT ![c] = Idle]
            /\ released' = released + (conns[c].bytes - conns[c].rem)
    /\ UNCHANGED << data, added, started >>
    /\ ConcFrame

\* release: head := data[i]; an index past the end panics the handler.
RelLoad(c) ==
    /\ conns[c].pc = "rel_load"
    /\ conns' = IF conns[c].i < Len(data)
                THEN [conns EXCEPT ![c].head = data[conns[c].i + 1],
                                   ![c].pc = "rel_store"]
                ELSE [conns EXCEPT ![c] = Idle]
    /\ UNCHANGED << data, added, released, started >>
    /\ ConcFrame

\* release: data[i] = nil or data[i] = slice, then i++.
RelStore(c) ==
    LET me == conns[c]
        l  == Len(me.head)
    IN /\ me.pc = "rel_store"
       /\ IF me.i < Len(data)
          THEN IF me.rem >= l
               THEN /\ data' = [data EXCEPT ![me.i + 1] = <<>>]
                    /\ conns' = [conns EXCEPT ![c].rem = me.rem - l,
                                              ![c].i = me.i + 1,
                                              ![c].pc = "rel_check"]
               ELSE /\ data' = [data EXCEPT ![me.i + 1] =
                                              copy(make(l - me.rem), me.head)]
                    /\ conns' = [conns EXCEPT ![c].rem = 0,
                                              ![c].i = me.i + 1,
                                              ![c].pc = "rel_check"]
          ELSE /\ data' = data
               /\ conns' = [conns EXCEPT ![c] = Idle]
       /\ UNCHANGED << added, released, started >>
       /\ ConcFrame

\* reset: data = nil.
ResetWrite(c) ==
    /\ conns[c].pc = "reset_write"
    /\ data' = <<>>
    /\ added' = 0
    /\ released' = 0
    /\ conns' = [conns EXCEPT ![c] = Idle]
    /\ UNCHANGED started
    /\ ConcFrame

NextConc ==
    \/ \E c \in 1..NumConns, op \in {"add", "rel", "reset"}, q \in Queries :
           Accept(c, op, q)
    \/ \E c \in 1..NumConns : AddRead(c)
    \/ \E c \in 1..NumConns : AddWrite(c)
    \/ \E c \in 1..NumConns : RelCheck(c)
    \/ \E c \in 1..NumConns : RelLoad(c)
    \/ \E c \in 1..NumConns : RelStore(c)
    \/ \E c \in 1..NumConns : ResetWrite(c)

SpecConc == InitConc /\ [][NextConc]_vars

----------------------------------------------------------------------------
(* Properties.                                                             *)

\* C1: from an empty or freshly reset store, as long as nothing has been
\* released, the lengths of the retained slabs sum to the amounts added.
C1_AddsSumToTotal ==
    (pc = "serving" /\ released = 0)
        => totalBytes(data) = added

C1_Witness ==
    /\ resp.op = "add"
    /\ resp.status = 200
    /\ released = 0
    /\ Len(data) = 3
    /\ added = 5

\* C2: release(amount) with amount >= 0 returns released + notReleased =
\* amount, and released is at most the bytes retained before the call.
C2_ReleaseAccounting ==
    (resp.op = "rel" /\ resp.status = 200 /\ resp.bytes >= 0)
        => /\ resp.released + resp.notReleased = resp.bytes
           /\ resp.released <= totalBytes(resp.prior)

C2_Witness ==
    /\ resp.op = "rel"
    /\ resp.status = 200
    /\ resp.released = 2
    /\ resp.notReleased = 1
    /\ Len(resp.prior) = 2

\* C3: release(amount) with amount at least the retained total T answers
\* normally, empties the store, and returns released = T and
\* notReleased = amount - T.
C3_OverRelease ==
    LET p == parseBytes(resp.query)
        T == totalBytes(resp.prior)
    IN (resp.op = "rel" /\ ~p.err /\ p.n >= T)
        => /\ resp.status = 200
           /\ totalBytes(data) = 0
           /\ resp.released = T
           /\ resp.notReleased = p.n - T

C3_Witness ==
    /\ resp.op = "rel"
    /\ resp.bytes = 3
    /\ totalBytes(resp.prior) = 2
    /\ Len(resp.prior) = 2
    /\ resp.notReleased = 1

C3_WitnessExact ==
    /\ resp.op = "rel"
    /\ resp.bytes = 3
    /\ totalBytes(resp.prior) = 3
    /\ resp.notReleased = 0

\* C4: a slab [b0..b_{L-1}] that release shrinks by k bytes, 0 < k < L, is
\* replaced by the slab [b_k..b_{L-1}].
C4_TailPreserved ==
    (resp.op = "rel" /\ resp.status = 200)
        => \A i \in 1..Len(data) :
              LET L == Len(resp.prior[i])
                  k == L - Len(data[i])
              IN (0 < k /\ k < L) => data[i] = SubSeq(resp.prior[i], k + 1, L)

\* C5: with no request in flight, the retained bytes are the bytes added
\* minus the bytes reported released since the last reset, as in some
\* one-at-a-time execution of the requests.
C5_Serialized ==
    (\A c \in 1..NumConns : conns[c].pc = "idle")
        => totalBytes(data) = added - released

\* the plan of the self-directed sequence underflows for ceiling l and
\* baseline a.
Underflow(l, a) == a > l \/ l \div 10 > l - a

\* C6: the self-directed sequence never asks for a slab when its plan
\* underflowed, and the spike it asks for is at most the ceiling.
C6_UnderflowGuarded ==
    pc = "spike" => (~Underflow(limit, heapAlloc) /\ fill <= limit)

\* the plan as main() holds it did not wrap around.
PlanInRange == available <= limit /\ reserved <= available

\* C7: with A + floor(L/10) <= L the plan is reserved = floor(L/10),
\* available = L - A, fill = available - reserved; the store holds fill
\* bytes after the spike, none after the release and reserved bytes after
\* the reallocation.
C7_ScriptedPlan ==
    /\ pc = "spike" =>
          /\ PlanInRange <=> (heapAlloc + limit \div 10 <= limit)
          /\ PlanInRange =>
                /\ reserved = limit \div 10
                /\ available = limit - heapAlloc
                /\ fill = available - reserved
                /\ fill + reserved + heapAlloc = limit
    /\ (pc \in {"spiked", "release"} /\ PlanInRange) => totalBytes(data) = fill
    /\ (pc \in {"gc", "realloc"} /\ PlanInRange) => totalBytes(data) = 0
    /\ (pc \in {"exit", "done"} /\ PlanInRange) => totalBytes(data) = reserved
    /\ planReserved(32000000) = 3200000
    /\ planFill(planAvailable(32000000, 2000000), planReserved(32000000)) = 26800000

C7_Witness ==
    /\ pc = "done"
    /\ limit = 25
    /\ fill = 20
    /\ reserved = 2
    /\ totalBytes(data) = 2

\* the steps of the self-directed sequence, in order.
Script(g) ==
    <<"snapshot", "add", "snapshot", "release">>
        \o (IF g THEN <<"gc", "snapshot">> ELSE <<>>)
        \o <<"add", "exit">>

IsPrefix(a, b) == Len(a) <= Len(b) /\ SubSeq(b, 1, Len(a)) = a

\* C8: the self-directed sequence takes its steps once each and in order
\* (snapshot, spike, release, reallocation, exit), with a collection pass
\* exactly when -gc is set, after the release and before the reallocation.
C8_LinearSequence ==
    ~interactive =>
        /\ IsPrefix(IF pc = "panicked" /\ events # <<>>
                    THEN SubSeq(events, 1, Len(events) - 1)
                    ELSE events,
                    Script(gcOpt))
        /\ pc = "done" => events = Script(gcOpt)
        /\ pc = "realloc" =>
              (gcOpt <=> \E k \in 1..Len(events) : events[k] = "gc")

C8_Witness ==
    /\ pc = "done"
    /\ gcOpt
    /\ \E k \in 1..Len(events) : events[k] = "gc" /\ events[k - 1] = "release"

\* the steps that change the store.
Mutations == {"add", "release", "reset"}

\* C9: a snapshot is read between any two steps of the self-directed
\* sequence that change the store, and every Add, Release and Reset
\* response ends with a snapshot read after the change.
C9_SnapshotAfterMutation ==
    /\ ~interactive =>
          \A i \in 1..Len(events) : \A j \in (i + 1)..Len(events) :
              (events[i] \in Mutations /\ events[j] \in Mutations)
                  => \E k \in (i + 1)..(j - 1) : events[k] = "snapshot"
    /\ (interactive /\ resp.op \in {"add", "rel", "reset"} /\ resp.status = 200)
          => events[Len(events)] = "snapshot"

\* s is an optional sign followed by one or more digits.
Numeric(s) ==
    \/ /\ Len(s) >= 1
       /\ \A k \in 1..Len(s) : s[k] \in Digits
    \/ /\ Len(s) >= 2
       /\ s[1] \in {"+", "-"}
       /\ \A k \in 2..Len(s) : s[k] \in Digits

\* C10: an Add or Release request without a bytes parameter, or with one
\* that is no integer, is answered 400 with no snapshot, and the store is
\* left as it was.
C10_InvalidInputRejected ==
    (resp.op \in {"add", "rel"}
         /\ (Len(resp.query) = 0 \/ ~Numeric(resp.query[1])))
        => /\ resp.status = 400
           /\ data = resp.prior
           /\ totalBytes(data) = totalBytes(resp.prior)
           /\ \A k \in 1..Len(events) : events[k] # "snapshot"

C10_Witness ==
    /\ resp.op = "add"
    /\ resp.query = << <<"1", "x">> >>
    /\ resp.status = 400
    /\ totalBytes(data) = 3

\* the amount a numeric bytes parameter stands for.
Amount(q) == Atoi(q[1]).n

\* C11: an Add or Release request with a negative amount is answered 400,
\* leaves the store as it was, does not panic, and reports no negative
\* released or notReleased count.
C11_NegativeRejected ==
    (resp.op \in {"add", "rel"} /\ Len(resp.query) > 0
         /\ Numeric(resp.query[1]) /\ Amount(resp.query) < 0)
        => /\ resp.status = 400
           /\ data = resp.prior
           /\ resp.released >= 0
           /\ resp.notReleased >= 0

\* C12: reset leaves the store without slabs, 0 bytes retained, whatever
\* it held before.
C12_ResetEmpties ==
    resp.op = "reset" => (data = <<>> /\ totalBytes(data) = 0)

C12_Witness ==
    /\ resp.op = "reset"
    /\ Len(resp.prior) = 3
    /\ totalBytes(resp.prior) = 4
    /\ data = <<>>

\* C13: Reset clears the store, then requests a collection pass, then
\* reads its snapshot; Add and Release request no collection pass.
C13_ResetOrder ==
    /\ resp.op = "reset" => events = <<"reset", "gc", "snapshot">>
    /\ resp.op \in {"add", "rel"} =>
          \A k \in 1..Len(events) : events[k] # "gc"

C13_Witness ==
    /\ resp.op = "reset"
    /\ resp.prior # <<>>
    /\ events = <<"reset", "gc", "snapshot">>

\* the positions of main() after the cgroup is set up and before it returns.
AfterSetup ==
    {"mode", "serving", "initial", "plan", "spike", "spiked", "release",
     "gc", "realloc", "exit"}

\* no slab was allocated, no step of either mode was taken.
NothingRan == data = <<>> /\ events = <<>> /\ resp = NoResp

\* C14: the cgroup exists with memory and swap limits equal to -limit and
\* holds this process before the mode is selected and before any slab is
\* allocated; when creating or binding it fails the process stops and no
\* add, release, reset or self-directed step ever runs.
C14_CeilingFirst ==
    /\ [](/\ pc \in AfterSetup =>
                cgroup = [state |-> "bound", limit |-> limit, swap |-> limit]
          /\ ~NothingRan =>
                /\ cgroup.state \in {"bound", "deleted"}
                /\ cgroup.limit = limit
                /\ cgroup.swap = limit
          /\ (pc = "panicked" /\ (events = <<>> \/ events[Len(events)] # "panic"))
                => NothingRan)
    /\ [][pc # "panicked"]_vars

C14_Witness ==
    /\ pc = "serving"
    /\ data # <<>>
    /\ limit = 25
    /\ cgroup = [state |-> "bound", limit |-> 25, swap |-> 25]

C14_WitnessAbort ==
    /\ pc = "panicked"
    /\ cgroup.state = "deleted"
    /\ NothingRan

\* the positions of main() inside the self-directed sequence.
Scripted ==
    {"initial", "plan", "spike", "spiked", "release", "gc", "realloc",
     "exit", "done"}

\* C15: with -interactive the self-directed steps never run and the store
\* changes only by an add, release or reset request; without it no handler
\* is ever served.
C15_ModesExclusive ==
    /\ [](/\ interactive => pc \notin Scripted
          /\ ~interactive => (pc \notin {"serving", "stopped"} /\ resp = NoResp))
    /\ [][(interactive /\ data' # data)
             => /\ resp'.op \in {"add", "rel", "reset"}
                /\ resp'.status = 200
                /\ resp'.prior = data]_vars

C15_Witness ==
    /\ interactive
    /\ pc = "serving"
    /\ resp.op = "rel"
    /\ data # resp.prior
    /\ Len(data) = 3

C15_WitnessScripted ==
    /\ ~interactive
    /\ pc = "done"
    /\ resp = NoResp
    /\ data # <<>>

\* C16: no retained slab holds a zero byte: add writes a non-zero value to
\* every byte of its slab, and the slab a partial release puts in place of
\* another has every byte written.
C16_NoZeroByte ==
    \A i \in 1..Len(data) : \A j \in 1..Len(data[i]) : data[i][j] # 0

C16_Witness ==
    /\ resp.op = "rel"
    /\ resp.status = 200
    /\ Len(data) >= 2
    /\ Len(resp.prior[2]) = 3
    /\ Len(data[2]) = 2
    /\ Len(data[1]) = 0

\* C17: a Stats or ForceCollect request leaves the store as it was: the
\* same slabs with the same bytes, hence the same total.
C17_ObserversLeaveStore ==
    [][resp'.op \in {"gc", "stats"}
          => (data' = data /\ totalBytes(data') = totalBytes(data))]_vars

C17_Witness ==
    /\ resp.op = "stats"
    /\ resp.status = 200
    /\ Len(data) = 2
    /\ totalBytes(data) = 3
    /\ data = resp.prior

C17_WitnessGC ==
    /\ resp.op = "gc"
    /\ Len(data) = 2
    /\ totalBytes(data) = 3
    /\ data = resp.prior

\* C18: in self-directed mode the spike slab is 90% of -limit and the slab
\* allocated after its release is the remaining 10% (90% read as either
\* rounding: nine tenths rounded down, or the limit less the tenth).
C18_NinetyTen ==
    (pc = "spike" /\ ~Underflow(limit, heapAlloc))
        => /\ fill \in {(9 * limit) \div 10, limit - limit \div 10}
           /\ reserved = limit \div 10

\* the bytes held by the first k slabs of d.
PrefixLen(d, k) == totalBytes(SubSeq(d, 1, k))

\* C19: release(amount) with 0 <= amount < total drops every slab before
\* the first one longer than what is left to release, shrinks that one to
\* its length less what is left, and leaves every later slab as it was; at
\* most one slab is shrunk.  add(100), add(50), release(120) leaves 30
\* bytes, all in the second slab.
C19_InsertionOrder ==
    /\ LET P == resp.prior
           n == resp.bytes
       IN (resp.op = "rel" /\ resp.status = 200 /\ 0 <= n /\ n < totalBytes(P))
           => LET k == CHOOSE x \in 1..Len(P) :
                          /\ PrefixLen(P, x) > n
                          /\ \A i \in 1..(x - 1) : PrefixLen(P, i) <= n
                  rest == n - PrefixLen(P, k - 1)
              IN /\ Len(data) = Len(P)
                 /\ \A i \in 1..(k - 1) : data[i] = <<>>
                 /\ Len(data[k]) = Len(P[k]) - rest
                 /\ \A i \in (k + 1)..Len(P) : data[i] = P[i]
                 /\ Cardinality({i \in 1..Len(P) :
                        0 < Len(data[i]) /\ Len(data[i]) < Len(P[i])}) <= 1
                 /\ resp.released = n
                 /\ resp.notReleased = 0
    /\ LET r == release(add(add(<<>>, 100), 50), 120)
       IN /\ r.released = 120
          /\ r.notReleased = 0
          /\ totalBytes(r.data) = 30
          /\ r.data[1] = <<>>
          /\ Len(r.data[2]) = 30

C19_Witness ==
    /\ resp.op = "rel"
    /\ resp.status = 200
    /\ Len(resp.prior) = 3
    /\ Len(resp.prior[1]) > 0
    /\ data[1] = <<>>
    /\ 0 < Len(data[2])
    /\ Len(data[2]) < Len(resp.prior[2])
    /\ data[3] = resp.prior[3]
    /\ data[3] # <<>>

\* C20: after a release every entry left in the store still retains
\* bytes: the slabs it consumed in full are gone from the sequence (stated
\* for stores whose slabs all held bytes before the call).
C20_ConsumedRemoved ==
    (resp.op = "rel" /\ resp.status = 200
         /\ \A i \in 1..Len(resp.prior) : Len(resp.prior[i]) > 0)
        => Len(data) = Cardinality({i \in 1..Len(data) : Len(data[i]) > 0})

\* C21: requests served one at a time conserve bytes: a release(amount)
\* with amount >= 0 leaves the total it found less the released value it
\* returns, so the total is always the bytes added less the bytes reported
\* released since the last reset, and is never negative.
C21_Conservation ==
    /\ (resp.op = "rel" /\ resp.status = 200 /\ resp.bytes >= 0)
          => totalBytes(data) = totalBytes(resp.prior) - resp.released
    /\ interactive
          => (totalBytes(data) = added - released /\ totalBytes(data) >= 0)

C21_Witness ==
    /\ resp.op = "rel"
    /\ resp.status = 200
    /\ resp.released = 2
    /\ totalBytes(resp.prior) = 4
    /\ totalBytes(data) = 2
    /\ added = 5
    /\ released = 3

\* largest amount of the pairs of releases compared below.
MaxAmount == 5

\* C22: release is additive: from any store, release(a) and then release(b)
\* leave the slabs that release(a + b) leaves and release as much in sum;
\* release(0) changes nothing and returns (0, 0).  Stated of the store in
\* every state, and of every two releases served one after the other.
C22_ReleaseAdditive ==
    /\ [](/\ \A a \in 0..MaxAmount : \A b \in 0..MaxAmount :
                LET r1 == release(data, a)
                    r2 == release(r1.data, b)
                    r  == release(data, a + b)
                IN /\ r2.data = r.data
                   /\ r1.released + r2.released = r.released
          /\ release(data, 0) = [data |-> data, released |-> 0, notReleased |-> 0])
    /\ [][(/\ resp.op = "rel" /\ resp.status = 200 /\ resp.bytes >= 0
           /\ resp'.op = "rel" /\ resp'.status = 200 /\ resp'.bytes >= 0
           /\ resp'.prior = data)
            => LET r == release(resp.prior, resp.bytes + resp'.bytes)
               IN /\ data' = r.data
                  /\ resp.released + resp'.released = r.released]_vars

C22_Witness ==
    /\ resp.op = "rel"
    /\ resp.status = 200
    /\ resp.bytes = 2
    /\ resp.released = 2
    /\ released = 3
    /\ added = 4
    /\ resp.prior = << <<1, 2>>, <<2>> >>
    /\ data = << <<>>, <<2>> >>

====
